---- MODULE Spec2Model ----
(***************************************************************************)
(* qxl.datagrid.source.tree.TreeDataSource: the flat row projection of a   *)
(* tree, its node index, and the queue of asynchronous structural tasks.   *)
(*                                                                         *)
(* Every `await` of the source is a point where other callers may run;     *)
(* the code between two awaits is one atomic step.  Row records are heap   *)
(* objects: a record is named by an identity (a positive integer) and its  *)
(* fields live in rowMetas, so that aliasing between the row list, the     *)
(* node index and the childRowMetas lists is kept.                         *)
(***************************************************************************)
EXTENDS Integers, Sequences, FiniteSets, TLC

VARIABLES
  root,                 \* the root property
  rowMetaDatas,         \* this.__rowMetaDatas: sequence of record identities
  rowMetaDataByNode,    \* this.__rowMetaDataByNode: node -> record identity, 0 = no entry
  rowMetas,             \* the heap of RowMetaData objects: identity -> fields
  bindingLeaked,        \* a children-change binding lost its record without being disposed
  queue,                \* this.__queue: the queued task functions, each with its position
  promiseQueueEmpty,    \* this.__promiseQueueEmpty is set
  flushWaiting,         \* flushQueue calls suspended at `await this.__promiseQueueEmpty`
  flushResuming,        \* flushQueue calls whose awaited promise resolved, not yet returned
  flushReturned,        \* the last step was the return of a flushQueue call
  starter               \* promise of the call that drives the drain, once its own task left the queue

vars == <<root, rowMetaDatas, rowMetaDataByNode, rowMetas, bindingLeaked, queue,
          promiseQueueEmpty, flushWaiting, flushResuming, flushReturned, starter>>

----------------------------------------------------------------------------
(* Bounds *)

MaxQueue == 2
MaxWaiters == 1
MaxCallbacks == 1

----------------------------------------------------------------------------
(* The tree behind the node inspector (the external collaborator):         *)
(*   R -> [A, B],  A -> [C],  C -> [null, E],  B -> [D],  D, E are leaves.   *)

NULL == "null"

Nodes == {"R", "A", "B", "C", "D", "E"}

\* inspector.getChildrenOf(node)
getChildrenOf(node) ==
  CASE node = "R" -> <<"A", "B">>
    [] node = "A" -> <<"C">>
    [] node = "C" -> <<NULL, "E">>
    [] node = "B" -> <<"D">>
    [] OTHER -> <<>>

\* inspector.canHaveChildren(node)
canHaveChildren(node) == node \in {"R", "A", "B", "C"}

\* inspector.getParentOf(node)
getParentOf(node) ==
  CASE node \in {"A", "B"} -> "R"
    [] node = "C" -> "A"
    [] node = "E" -> "C"
    [] node = "D" -> "B"
    [] OTHER -> NULL

\* Arguments the callers pass, in the runs of Spec
RootChoices == {NULL, "R"}
ExpandChoices == {"A", "C"}
CollapseChoices == {"A"}
RefreshChoices == {"R"}
RevealChoices == {"E"}
ChildrenChangeChoices == {"C"}

\* Arguments the callers pass, in the runs of StoreSpec
StoreRootChoices == {NULL, "R", "A", "C", "E"}
StoreExpandChoices == {"A", "B", "C", "E"}
StoreCollapseChoices == {"A", "C"}
StoreRefreshChoices == {"R", "A"}
StoreRevealChoices == {"E", "R"}

----------------------------------------------------------------------------
(* Sequences *)

\* Array.prototype.indexOf, 1-based; 0 when absent (-1 in the source)
indexOf(s, x) ==
  IF \E i \in 1..Len(s) : s[i] = x
    THEN CHOOSE i \in 1..Len(s) : s[i] = x /\ \A j \in 1..(i - 1) : s[j] # x
    ELSE 0

\* qx.lang.Array.remove: removes the first occurrence
ArrayRemove(s, x) ==
  LET i == indexOf(s, x) IN
  IF i = 0 THEN s ELSE SubSeq(s, 1, i - 1) \o SubSeq(s, i + 1, Len(s))

Range(s) == {s[i] : i \in 1..Len(s)}

----------------------------------------------------------------------------
(* Row records *)

\* __createRowMetaData
createRowMetaData(node, level) ==
  [node |-> node, level |-> level, canHaveChildren |-> FALSE,
   hasChildRowMetas |-> FALSE, childRowMetas |-> <<>>, childrenChangeBinding |-> FALSE]

\* identity of a newly allocated object
NewId(heap) ==
  CHOOSE i \in 1..(Cardinality(DOMAIN heap) + 1) :
    i \notin DOMAIN heap /\ \A j \in 1..(i - 1) : j \in DOMAIN heap

\* The store the tasks work on
Store(rows, byNode, heap, leaked) ==
  [rows |-> rows, byNode |-> byNode, heap |-> heap, leaked |-> leaked]

CurStore == Store(rowMetaDatas, rowMetaDataByNode, rowMetas, bindingLeaked)

\* _getNodeMetaData
getNodeMetaData(st, node) == st.byNode[node]

\* __disposeRowMetaData
disposeRowMetaData(st, id) ==
  IF st.heap[id].childrenChangeBinding
    THEN [st EXCEPT !.heap[id].childrenChangeBinding = FALSE]
    ELSE st

\* inspector.createChildrenChangeBinding, stored in the record
createChildrenChangeBinding(st, id) ==
  [st EXCEPT !.heap[id].childrenChangeBinding = TRUE]

\* the records removeChildRows collects in toRemove, in the order it pushes them
RECURSIVE toRemoveOf(_, _)
toRemoveOf(heap, ids) ==
  IF ids = <<>> THEN <<>>
  ELSE LET c == Head(ids)
           below == IF heap[c].hasChildRowMetas
                      THEN toRemoveOf(heap, heap[c].childRowMetas) ELSE <<>>
       IN <<c>> \o below \o toRemoveOf(heap, Tail(ids))

RECURSIVE disposeAll(_, _)
disposeAll(st, ids) ==
  IF ids = <<>> THEN st ELSE disposeAll(disposeRowMetaData(st, Head(ids)), Tail(ids))

\* the closing loop of _removeChildRows: delete the index entry, remove the row
RECURSIVE dropAll(_, _)
dropAll(st, ids) ==
  IF ids = <<>> THEN st
  ELSE LET c == Head(ids)
           st1 == [st EXCEPT !.byNode[st.heap[c].node] = 0,
                             !.rows = ArrayRemove(st.rows, c)]
       IN dropAll(st1, Tail(ids))

\* _removeChildRows
removeChildRows(st, id) ==
  LET toRemove == IF st.heap[id].hasChildRowMetas
                    THEN toRemoveOf(st.heap, st.heap[id].childRowMetas) ELSE <<>>
      st1 == disposeAll(st, toRemove)
      st2 == [st1 EXCEPT !.heap[id].hasChildRowMetas = FALSE,
                         !.heap[id].childRowMetas = <<>>]
  IN dropAll(st2, toRemove)

\* _collapseNode: ok = FALSE when it throws "Cannot find node in rows"
collapseNodeBody(st, node) ==
  LET id == st.byNode[node] IN
  IF id = 0 THEN [ok |-> FALSE, st |-> st]
  ELSE IF ~st.heap[id].hasChildRowMetas THEN [ok |-> TRUE, st |-> st]
  ELSE [ok |-> TRUE, st |-> removeChildRows(disposeRowMetaData(st, id), id)]

\* the loop of _expandNode over the fetched children: null entries are skipped
RECURSIVE buildChildRowMetas(_, _, _, _)
buildChildRowMetas(st, children, level, acc) ==
  IF children = <<>> THEN [st |-> st, ids |-> acc]
  ELSE LET childNode == Head(children) IN
       IF childNode = NULL THEN buildChildRowMetas(st, Tail(children), level, acc)
       ELSE LET id == NewId(st.heap)
                childRowMeta == [createRowMetaData(childNode, level)
                                   EXCEPT !.canHaveChildren = canHaveChildren(childNode)]
                st1 == [st EXCEPT !.heap = (id :> childRowMeta) @@ @,
                                  !.byNode[childNode] = id]
            IN buildChildRowMetas(st1, Tail(children), level, Append(acc, id))

\* the new records are appended to the row list instead of spliced in
spliceRows_AtEnd(rows, parentRowIndex, childRowMetas) == rows \o childRowMetas

\* the splice of _expandNode: before + childRowMetas + after
spliceRows(rows, parentRowIndex, childRowMetas) ==
  LET before == SubSeq(rows, 1, parentRowIndex)
      after == IF parentRowIndex = Len(rows) THEN <<>>
               ELSE SubSeq(rows, parentRowIndex + 1, Len(rows))
  IN before \o childRowMetas \o after

\* _expandNode after its fetch returned children
expandNodeBody(st, node, children) ==
  LET rowMetadata == getNodeMetaData(st, node) IN
  IF rowMetadata = 0 THEN [ok |-> FALSE, st |-> st]
  ELSE IF st.heap[rowMetadata].hasChildRowMetas \/ ~st.heap[rowMetadata].canHaveChildren
    THEN [ok |-> TRUE, st |-> st]
  ELSE LET st1 == createChildrenChangeBinding(st, rowMetadata)
           parentRowIndex == indexOf(st1.rows, rowMetadata)
           built == buildChildRowMetas(st1, children, st1.heap[rowMetadata].level + 1, <<>>)
           st2 == built.st
       IN [ok |-> TRUE,
           st |-> [st2 EXCEPT !.rows = spliceRows(st2.rows, parentRowIndex, built.ids),
                              !.heap[rowMetadata].hasChildRowMetas = TRUE,
                              !.heap[rowMetadata].childRowMetas = built.ids]]

\* the loop of _insertChildRows over the fetched children.  A null child makes
\* node.toHashCode() throw; whether the inspector factory threw before the
\* record was pushed to the row list depends on the factory (pushNull).
RECURSIVE insertLoop(_, _, _, _)
insertLoop(st, rowMeta, children, pushNull) ==
  IF children = <<>> THEN [ok |-> TRUE, st |-> st]
  ELSE LET node == Head(children)
           id == NewId(st.heap)
           childRowMeta == [createRowMetaData(node, 0)
                              EXCEPT !.canHaveChildren = canHaveChildren(node)]
       IN IF node = NULL
            THEN [ok |-> FALSE,
                  st |-> IF pushNull
                           THEN [st EXCEPT !.heap = (id :> childRowMeta) @@ @,
                                           !.rows = Append(@, id)]
                           ELSE st]
            ELSE insertLoop([st EXCEPT !.heap = (id :> childRowMeta) @@ @,
                                       !.rows = Append(@, id),
                                       !.byNode[node] = id,
                                       !.heap[rowMeta].childRowMetas = Append(@, id)],
                            rowMeta, Tail(children), pushNull)

\* children whose inspector (the factory call or canHaveChildren) may raise
InspectorMayFail == {"B"}

\* position of the first child whose inspector raises; 0 when there is none
firstRaising(children) ==
  IF \E k \in 1..Len(children) : children[k] \in InspectorMayFail
    THEN CHOOSE k \in 1..Len(children) :
           /\ children[k] \in InspectorMayFail
           /\ \A j \in 1..(k - 1) : children[j] \notin InspectorMayFail
    ELSE 0

\* _expandNode of a closed node when the inspector of a child raises inside the
\* loop: the binding is created and the children before it are in the index,
\* the splice and the assignment of childRowMetas are not reached
expandNodeRaises(st, node, children) ==
  LET rowMetadata == getNodeMetaData(st, node)
      st1 == createChildrenChangeBinding(st, rowMetadata)
      before == SubSeq(children, 1, firstRaising(children) - 1)
  IN buildChildRowMetas(st1, before, st1.heap[rowMetadata].level + 1, <<>>).st

\* _insertChildRows when the inspector of a child raises inside the loop: the
\* children before it have been pushed
insertLoopRaises(st, rowMeta, children) ==
  insertLoop(st, rowMeta, SubSeq(children, 1, firstRaising(children) - 1), FALSE).st

\* getPathToNode of revealNode: the ancestors that themselves have a parent
RECURSIVE pathFrom(_, _)
pathFrom(parent, path) ==
  IF parent # NULL /\ getParentOf(parent) # NULL
    THEN pathFrom(getParentOf(parent), <<parent>> \o path)
    ELSE path

getPathToNode(node) == pathFrom(getParentOf(node), <<>>)

----------------------------------------------------------------------------
(* Objects no reference reaches any more are dropped from the heap, and the *)
(* identities of the others are renamed in the order the references reach  *)
(* them (an identity has no meaning but to tell two objects apart).        *)

NodeSeq == <<"R", "A", "B", "C", "D", "E">>

RECURSIVE reachOrder(_, _, _)
reachOrder(heap, todo, acc) ==
  IF todo = <<>> THEN acc
  ELSE LET h == Head(todo) IN
       IF h = 0 \/ h \in Range(acc) THEN reachOrder(heap, Tail(todo), acc)
       ELSE reachOrder(heap, Tail(todo) \o heap[h].childRowMetas, Append(acc, h))

collect(st, q) ==
  LET held == [i \in 1..Len(q) |-> q[i].rowMeta]
      inIndex == [k \in 1..Len(NodeSeq) |-> st.byNode[NodeSeq[k]]]
      live == reachOrder(st.heap, st.rows \o inIndex \o held, <<>>)
      name(id) == IF id = 0 THEN 0 ELSE indexOf(live, id)
      names(ids) == [k \in 1..Len(ids) |-> name(ids[k])]
  IN [st |-> [rows |-> names(st.rows),
              byNode |-> [n \in Nodes |-> name(st.byNode[n])],
              heap |-> [k \in 1..Len(live) |->
                          [st.heap[live[k]] EXCEPT !.childRowMetas = names(@)]],
              leaked |-> st.leaked \/ \E i \in DOMAIN st.heap :
                           i \notin Range(live) /\ st.heap[i].childrenChangeBinding],
      q |-> [i \in 1..Len(q) |-> [q[i] EXCEPT !.rowMeta = name(@)]]]

----------------------------------------------------------------------------
(* The queue *)

\* a queued task function.  op "changed" is the refreshNodeChildren that a
\* children-change binding calls.  pc is the position of its run:
\*   queued        not called yet
\*   insert_fetch  suspended at the getChildrenOf of _insertChildRows
\*   expand_fetch  suspended at the getChildrenOf of _expandNode
\*   reveal_path   suspended in getPathToNode
\*   done, failed  its promise is resolved, rejected
\* promise is the promise queue() returned to the caller that submitted it.
\* flush: the call the task awaits has itself called makeAvailable and is
\* suspended at `await this.__promiseQueueEmpty`.
Task(op, node, promise) ==
  [op |-> op, node |-> node, pc |-> "queued", rowMeta |-> 0, ancestors |-> <<>>,
   promise |-> promise, flush |-> FALSE]

\* the new task is put before the queued ones instead of after them
push_AtFront(q, fn) == <<fn>> \o q

\* this.__queue.push(fn)
push(q, fn) == Append(q, fn)

\* queue(): the pushing call runs the queue itself when its task is the only one
startsQueue(q) == Len(q) = 1

\* the synchronous part of a task function, up to its first await
startTask(st, e) ==
  CASE e.op = "setRoot" ->
         LET row == NewId(st.heap)
             rec == [createRowMetaData(e.node, -1)
                       EXCEPT !.canHaveChildren = canHaveChildren(e.node)]
             st1 == [st EXCEPT !.heap = (row :> rec) @@ @, !.byNode[e.node] = row]
         IN IF ~canHaveChildren(e.node)
              THEN [st |-> st1, e |-> [e EXCEPT !.pc = "failed"]]
              ELSE LET st2 == createChildrenChangeBinding(st1, row)
                       rowMeta == getNodeMetaData(st2, e.node)
                       st3 == [st2 EXCEPT !.heap[rowMeta].hasChildRowMetas = TRUE,
                                          !.heap[rowMeta].childRowMetas = <<>>]
                   IN [st |-> st3, e |-> [e EXCEPT !.pc = "insert_fetch", !.rowMeta = rowMeta]]
    [] e.op = "expand" -> [st |-> st, e |-> [e EXCEPT !.pc = "expand_fetch"]]
    [] e.op = "collapse" ->
         LET r == collapseNodeBody(st, e.node) IN
         [st |-> r.st, e |-> [e EXCEPT !.pc = IF r.ok THEN "done" ELSE "failed"]]
    [] e.op \in {"refresh", "changed"} ->
         LET r == collapseNodeBody(st, e.node) IN
         [st |-> r.st, e |-> [e EXCEPT !.pc = IF r.ok THEN "expand_fetch" ELSE "failed"]]
    [] e.op = "reveal" -> [st |-> st, e |-> [e EXCEPT !.pc = "reveal_path"]]

\* a rejected task: the error travels up the awaits of __executeNextQueue to the
\* queue() call that runs the queue, and nothing shifts the task off the queue
deliverError(q, i, str) ==
  IF q[i].promise = "pending"
    THEN [q |-> [q EXCEPT ![i].promise = "rejected"], starter |-> str]
    ELSE [q |-> q, starter |-> "rejected"]

\* __executeNextQueue
executeNextQueue(st, q, str) ==
  IF Len(q) = 0
    THEN [st |-> st, q |-> q, starter |-> "none", resolved |-> TRUE]
    ELSE LET r == startTask(st, q[1])
             q1 == [q EXCEPT ![1] = r.e]
             d == IF r.e.pc = "failed" THEN deliverError(q1, 1, str)
                  ELSE [q |-> q1, starter |-> str]
         IN [st |-> r.st, q |-> d.q, starter |-> d.starter, resolved |-> FALSE]

\* the assignments every step of a task ends with
Commit(st, q) ==
  IF st = CurStore /\ \A i \in 1..Len(q) : q[i].rowMeta = 0
    THEN /\ queue' = q
         /\ UNCHANGED <<rowMetaDatas, rowMetaDataByNode, rowMetas, bindingLeaked>>
    ELSE LET c == collect(st, q) IN
         /\ rowMetaDatas' = c.st.rows
         /\ rowMetaDataByNode' = c.st.byNode
         /\ rowMetas' = c.st.heap
         /\ bindingLeaked' = c.st.leaked
         /\ queue' = c.q

\* this.__promiseQueueEmpty.resolve(); this.__promiseQueueEmpty = null
ResolveQueueEmpty(resolved) ==
  IF resolved /\ promiseQueueEmpty
    THEN /\ promiseQueueEmpty' = FALSE
         /\ flushResuming' = flushResuming + flushWaiting
         /\ flushWaiting' = 0
    ELSE UNCHANGED <<promiseQueueEmpty, flushWaiting, flushResuming>>

\* the resolved promise resumes the flushQueue calls made from within tasks
wake(q, resolved) ==
  IF resolved /\ promiseQueueEmpty
    THEN [i \in 1..Len(q) |-> [q[i] EXCEPT !.flush = FALSE]]
    ELSE q

\* queue(fn)
Queue(st, op, node) ==
  LET q1 == push(queue, Task(op, node, IF queue = <<>> THEN "pending" ELSE "resolved")) IN
  IF startsQueue(q1)
    THEN LET x == executeNextQueue(st, q1, starter) IN
         /\ Commit(x.st, wake(x.q, x.resolved))
         /\ starter' = x.starter
         /\ ResolveQueueEmpty(x.resolved)
    ELSE /\ Commit(st, q1)
         /\ UNCHANGED <<starter, promiseQueueEmpty, flushWaiting, flushResuming>>

----------------------------------------------------------------------------
(* The calls *)

\* setRoot(value) -> __applyRoot(value, oldValue); the property calls apply only on a change
SetRoot(value) ==
  /\ value # root
  /\ value # NULL => Len(queue) < MaxQueue
  /\ root' = value
  /\ flushReturned' = FALSE
  /\ LET oldValue == root
         \* line 86 has emptied the row list before line 88 reads it: nothing is disposed
         st1 == [CurStore EXCEPT !.rows = <<>>]
         oldRowMetaDatas == st1.rows
         st2 == IF oldValue # NULL
                  THEN disposeAll([st1 EXCEPT !.byNode = [n \in Nodes |-> 0], !.rows = <<>>],
                                  oldRowMetaDatas)
                  ELSE st1
     IN IF value # NULL
          THEN Queue(st2, "setRoot", value)
          ELSE /\ Commit(st2, queue)
               /\ UNCHANGED <<starter, promiseQueueEmpty, flushWaiting, flushResuming>>

\* expandNode(node)
ExpandNode(node) ==
  /\ Len(queue) < MaxQueue
  /\ Queue(CurStore, "expand", node)
  /\ flushReturned' = FALSE
  /\ UNCHANGED root

\* collapseNode(node)
CollapseNode(node) ==
  /\ Len(queue) < MaxQueue
  /\ Queue(CurStore, "collapse", node)
  /\ flushReturned' = FALSE
  /\ UNCHANGED root

\* refreshNodeChildren(node)
RefreshNodeChildren(node) ==
  /\ Len(queue) < MaxQueue
  /\ Queue(CurStore, "refresh", node)
  /\ flushReturned' = FALSE
  /\ UNCHANGED root

\* revealNode(node)
RevealNode(node) ==
  /\ Len(queue) < MaxQueue
  /\ Queue(CurStore, "reveal", node)
  /\ flushReturned' = FALSE
  /\ UNCHANGED root

\* the children of node change: the callback of its children-change binding
\* calls refreshNodeChildren(node).  Bindings of records the store no longer
\* references are left out.
ChildrenChange(node) ==
  /\ \E id \in DOMAIN rowMetas :
       rowMetas[id].node = node /\ rowMetas[id].childrenChangeBinding
  /\ Cardinality({i \in 1..Len(queue) : queue[i].op = "changed"}) < MaxCallbacks
  /\ Queue(CurStore, "changed", node)
  /\ flushReturned' = FALSE
  /\ UNCHANGED root

\* makeAvailable(range) -> flushQueue(), up to its await or its return
FlushQueue ==
  /\ IF promiseQueueEmpty
       THEN /\ flushWaiting + flushResuming < MaxWaiters
            /\ flushWaiting' = flushWaiting + 1
            /\ flushReturned' = FALSE
            /\ UNCHANGED promiseQueueEmpty
       ELSE /\ promiseQueueEmpty' = (Len(queue) # 0)
            /\ flushReturned' = TRUE
            /\ UNCHANGED flushWaiting
  /\ UNCHANGED <<root, rowMetaDatas, rowMetaDataByNode, rowMetas, bindingLeaked, queue,
                 flushResuming, starter>>

\* flushQueue resumes after `await this.__promiseQueueEmpty` and returns
FlushResume ==
  /\ flushResuming > 0
  /\ flushResuming' = flushResuming - 1
  /\ flushReturned' = TRUE
  /\ UNCHANGED <<root, rowMetaDatas, rowMetaDataByNode, rowMetas, bindingLeaked, queue,
                 promiseQueueEmpty, flushWaiting, starter>>

\* makeAvailable(range) called from within the running task, by the call the
\* task is suspended at: flushQueue up to its await or its return
TaskFlushQueue(i) ==
  /\ queue[i].pc \in {"insert_fetch", "expand_fetch", "reveal_path"} /\ ~queue[i].flush
  /\ IF promiseQueueEmpty
       THEN /\ queue' = [queue EXCEPT ![i].flush = TRUE]
            /\ flushReturned' = FALSE
            /\ UNCHANGED promiseQueueEmpty
       ELSE /\ promiseQueueEmpty' = (Len(queue) # 0)
            /\ flushReturned' = TRUE
            /\ UNCHANGED queue
  /\ UNCHANGED <<root, rowMetaDatas, rowMetaDataByNode, rowMetas, bindingLeaked,
                 flushWaiting, flushResuming, starter>>

----------------------------------------------------------------------------
(* The steps of a running task *)

\* what a step of task i leaves: the store, the task's new position
TaskStep(i, st, e) ==
  LET q1 == [queue EXCEPT ![i] = e]
      d == IF e.pc = "failed" THEN deliverError(q1, i, starter)
           ELSE [q |-> q1, starter |-> starter]
  IN /\ Commit(st, d.q)
     /\ starter' = d.starter
     /\ flushReturned' = FALSE
     /\ UNCHANGED <<root, promiseQueueEmpty, flushWaiting, flushResuming>>

\* nodes whose getChildrenOf may raise
FetchMayFail == {"B"}

\* _insertChildRows resumes with the children of the root
InsertChildRowsResume(i, fetched, pushNull) ==
  /\ queue[i].pc = "insert_fetch" /\ ~queue[i].flush
  /\ ~fetched => queue[i].node \in FetchMayFail
  /\ LET e == queue[i]
         r == IF fetched
                THEN insertLoop(CurStore, e.rowMeta, getChildrenOf(e.node), pushNull)
                ELSE [ok |-> FALSE, st |-> CurStore]
     IN TaskStep(i, r.st, [e EXCEPT !.pc = IF r.ok THEN "done" ELSE "failed",
                                    !.rowMeta = 0])

\* getPathToNode returns to the task of revealNode
RevealPathResume(i) ==
  /\ queue[i].pc = "reveal_path" /\ ~queue[i].flush
  /\ LET e == queue[i]
         ancestors == getPathToNode(e.node)
     IN TaskStep(i, CurStore,
                 [e EXCEPT !.ancestors = ancestors,
                           !.pc = IF Len(ancestors) = 0 THEN "done" ELSE "expand_fetch"])

\* _expandNode resumes with the fetched children (or the fetch raised)
ExpandNodeResume(i, fetched) ==
  /\ queue[i].pc = "expand_fetch" /\ ~queue[i].flush
  /\ LET e == queue[i]
         node == IF e.op = "reveal" THEN Head(e.ancestors) ELSE e.node
         r == IF fetched THEN expandNodeBody(CurStore, node, getChildrenOf(node))
              ELSE [ok |-> FALSE, st |-> CurStore]
         rest == IF e.op = "reveal" THEN Tail(e.ancestors) ELSE <<>>
     IN /\ ~fetched => node \in FetchMayFail
        /\ TaskStep(i, r.st,
                    [e EXCEPT !.ancestors = IF r.ok THEN rest ELSE @,
                              !.pc = IF ~r.ok THEN "failed"
                                     ELSE IF Len(rest) = 0 THEN "done" ELSE "expand_fetch"])

\* _insertChildRows resumes with the children and the inspector of one raises
InsertChildRowsRaises(i) ==
  /\ queue[i].pc = "insert_fetch" /\ ~queue[i].flush
  /\ firstRaising(getChildrenOf(queue[i].node)) # 0
  /\ LET e == queue[i] IN
       TaskStep(i, insertLoopRaises(CurStore, e.rowMeta, getChildrenOf(e.node)),
                [e EXCEPT !.pc = "failed", !.rowMeta = 0])

\* _expandNode resumes with the children and the inspector of one raises
ExpandNodeRaises(i) ==
  /\ queue[i].pc = "expand_fetch" /\ ~queue[i].flush
  /\ LET e == queue[i]
         node == IF e.op = "reveal" THEN Head(e.ancestors) ELSE e.node
         rowMetadata == rowMetaDataByNode[node]
     IN /\ rowMetadata # 0
        /\ rowMetas[rowMetadata].canHaveChildren /\ ~rowMetas[rowMetadata].hasChildRowMetas
        /\ firstRaising(getChildrenOf(node)) # 0
        /\ TaskStep(i, expandNodeRaises(CurStore, node, getChildrenOf(node)),
                    [e EXCEPT !.pc = "failed"])

\* __executeNextQueue resumes after `await fn()`: shift, then the next task
TaskComplete(i) ==
  /\ queue[i].pc = "done"
  /\ LET str == IF queue[1].promise = "pending" THEN "pending" ELSE starter
         x == executeNextQueue(CurStore, Tail(queue), str)
     IN /\ Commit(x.st, wake(x.q, x.resolved))
        /\ starter' = x.starter
        /\ ResolveQueueEmpty(x.resolved)
  /\ flushReturned' = FALSE
  /\ UNCHANGED root

----------------------------------------------------------------------------

Init ==
  /\ root = NULL
  /\ rowMetaDatas = <<>>
  /\ rowMetaDataByNode = [n \in Nodes |-> 0]
  /\ rowMetas = <<>>
  /\ bindingLeaked = FALSE
  /\ queue = <<>>
  /\ promiseQueueEmpty = FALSE
  /\ flushWaiting = 0
  /\ flushResuming = 0
  /\ flushReturned = FALSE
  /\ starter = "none"

\* the steps the tasks and the suspended calls take by themselves
Resume ==
  \/ \E i \in 1..Len(queue), fetched \in BOOLEAN, pushNull \in BOOLEAN :
       InsertChildRowsResume(i, fetched, pushNull)
  \/ \E i \in 1..Len(queue) : RevealPathResume(i)
  \/ \E i \in 1..Len(queue), fetched \in BOOLEAN : ExpandNodeResume(i, fetched)
  \/ \E i \in 1..Len(queue) : InsertChildRowsRaises(i)
  \/ \E i \in 1..Len(queue) : ExpandNodeRaises(i)
  \/ \E i \in 1..Len(queue) : TaskComplete(i)

Next ==
  \/ \E value \in RootChoices : SetRoot(value)
  \/ \E node \in ExpandChoices : ExpandNode(node)
  \/ \E node \in CollapseChoices : CollapseNode(node)
  \/ \E node \in RefreshChoices : RefreshNodeChildren(node)
  \/ \E node \in RevealChoices : RevealNode(node)
  \/ \E node \in ChildrenChangeChoices : ChildrenChange(node)
  \/ FlushQueue
  \/ FlushResume
  \/ \E i \in 1..Len(queue) : TaskFlushQueue(i)
  \/ Resume

Spec == Init /\ [][Next]_vars

\* The row projection under more inputs.  flushQueue reads the length of the
\* queue and writes __promiseQueueEmpty only, so these runs leave it out.
StoreNext ==
  \/ \E value \in StoreRootChoices : SetRoot(value)
  \/ \E node \in StoreExpandChoices : ExpandNode(node)
  \/ \E node \in StoreCollapseChoices : CollapseNode(node)
  \/ \E node \in StoreRefreshChoices : RefreshNodeChildren(node)
  \/ \E node \in StoreRevealChoices : RevealNode(node)
  \/ Resume

StoreSpec == Init /\ [][StoreNext]_vars

----------------------------------------------------------------------------
(* What the callers can observe *)

\* a task function has been called and has not returned yet
Suspended(e) == e.pc \in {"insert_fetch", "expand_fetch", "reveal_path"}

\* a task function has been called
Started(e) == e.pc # "queued"

\* a task raised: nothing runs, and its function stays at the head of the queue
Stalled == queue # <<>> /\ queue[1].pc = "failed"

\* no task is queued or running
Idle == queue = <<>>

\* the node, the level of row i
RowNode(i) == rowMetas[rowMetaDatas[i]].node
RowLevel(i) == rowMetas[rowMetaDatas[i]].level

RowNodes == [i \in 1..Len(rowMetaDatas) |-> RowNode(i)]

\* getSize().getRow()
getSize == Len(rowMetaDatas)

\* getNodeStateFor(node).state; NULL when the node has no record
getNodeStateFor(byNode, heap, node) ==
  LET row == byNode[node] IN
  IF row = 0 THEN NULL
  ELSE IF heap[row].canHaveChildren
         THEN (IF heap[row].hasChildRowMetas THEN "open" ELSE "closed")
         ELSE "none"

\* getNode(rowIndex), rowIndex counted from 0 as in the source.  Below 0 the
\* array read gives undefined and `row.node` raises a TypeError.
getNode(rows, heap, rowIndex) ==
  IF rowIndex >= Len(rows) THEN NULL
  ELSE IF rowIndex < 0 THEN "TypeError"
  ELSE heap[rows[rowIndex + 1]].node

\* getModelForPosition(pos): getNode(pos.getRow()) || null
getModelForPosition(rows, heap, rowIndex) == getNode(rows, heap, rowIndex)

\* getPositionOfModel(node): <<>> when it returns null, else <<row>> for
\* new Position(row, 0), the row counted from 0
getPositionOfModel(rows, byNode, node) ==
  LET row == byNode[node] IN
  IF row = 0 THEN <<>> ELSE <<indexOf(rows, row) - 1>>

\* the record of the node has childRowMetas
Expanded(n) == rowMetaDataByNode[n] # 0 /\ rowMetas[rowMetaDataByNode[n]].hasChildRowMetas

\* n is below the root and every node on the way up to the root is expanded
RECURSIVE Shown(_)
Shown(n) ==
  /\ root # NULL
  /\ n # root
  /\ LET p == getParentOf(n) IN
       /\ p # NULL
       /\ Expanded(p)
       /\ p = root \/ Shown(p)

\* the records that hold a children-change binding for node n
Holders(n) ==
  {i \in DOMAIN rowMetas : rowMetas[i].node = n /\ rowMetas[i].childrenChangeBinding}

\* what a row shows: its node and its level
RowView(rows, heap) == [i \in 1..Len(rows) |-> <<heap[rows[i]].node, heap[rows[i]].level>>]

\* the records below the given ones, in pre-order
RECURSIVE PreOrder(_, _)
PreOrder(heap, ids) ==
  IF ids = <<>> THEN <<>>
  ELSE <<Head(ids)>> \o PreOrder(heap, heap[Head(ids)].childRowMetas)
                     \o PreOrder(heap, Tail(ids))

NonNull(children) == SelectSeq(children, LAMBDA c : c # NULL)

----------------------------------------------------------------------------
(* C1 *)

\* C1: queued tasks run one at a time in the order of submission.  Only the
\* task at the head of the queue (the oldest one still queued) has ever been
\* called; every task behind it has not started, so no two tasks run at once
\* and none starts before the one submitted before it has completed.
C1_OneTaskAtATime ==
  \A i \in 1..Len(queue) : Started(queue[i]) => i = 1

\* a task is suspended at an await while a later call's task waits behind it
C1_Witness ==
  /\ Len(queue) = 2
  /\ Suspended(queue[1])
  /\ queue[2].pc = "queued"

(* C2 *)

\* C2: the queue survives a task that raises.  Whenever tasks are in the
\* queue, one of them is being run (suspended at an await, or completed and
\* about to be shifted off): a failed task does not stay at the head of the
\* queue with the tasks submitted after it waiting behind it for ever.
C2_QueueSurvives ==
  queue # <<>> => \E i \in 1..Len(queue) : Suspended(queue[i]) \/ queue[i].pc = "done"

(* C3 *)

\* C3: an error raised inside a queued task rejects the promise of the call
\* that submitted that task, and the promise of no other call.
C3_ErrorGoesToSubmitter ==
  /\ starter # "rejected"
  /\ \A i \in 1..Len(queue) : queue[i].pc = "failed" => queue[i].promise = "rejected"

(* C4 *)

\* C4: whenever a call of makeAvailable (flushQueue) returns, the queue is empty.
C4_FlushReturnsOnEmptyQueue ==
  flushReturned => queue = <<>>

(* C5 *)

\* C5: whenever the queue is idle, the row list holds exactly the nodes below
\* the current root whose ancestors up to the root are all expanded, each
\* once, and nothing else (not the root, no node of a replaced root).
C5_RowsAreTheShownNodes ==
  Idle =>
    /\ \A i \in 1..Len(rowMetaDatas) : RowNode(i) \in Nodes
    /\ \A n \in Nodes :
         Cardinality({i \in 1..Len(rowMetaDatas) : RowNode(i) = n})
           = IF Shown(n) THEN 1 ELSE 0

(* C6 *)

\* C6: while a task is suspended at an await, a step that is not a step of
\* that task (a call of setRoot, expand, collapse, refreshChildren or reveal)
\* changes neither the row list nor the node index.
C6_OnlyTheRunningTaskMutates ==
  [][(/\ queue # <<>> /\ Suspended(queue[1])
      /\ queue' # <<>>
      /\ queue'[1].pc = queue[1].pc
      /\ queue'[1].ancestors = queue[1].ancestors)
     => UNCHANGED <<rowMetaDatas, rowMetaDataByNode>>]_vars

(* C7 *)

\* C7: whenever the queue is idle, the bindings created and not disposed are
\* exactly one for each node whose record has childRowMetas, and none else.
C7_OneBindingPerExpandedNode ==
  Idle =>
    /\ ~bindingLeaked
    /\ \A n \in Nodes : Cardinality(Holders(n)) = IF Expanded(n) THEN 1 ELSE 0

(* C8 *)

\* C8: whenever the queue is idle, every record of the row list is the index
\* entry of its own node, and every index entry but the root's is a row.
C8_IndexMatchesRows ==
  Idle =>
    /\ \A i \in 1..Len(rowMetaDatas) :
         RowNode(i) \in Nodes /\ rowMetaDataByNode[RowNode(i)] = rowMetaDatas[i]
    /\ \A n \in Nodes :
         rowMetaDataByNode[n] # 0 /\ n # root
           => rowMetaDataByNode[n] \in Range(rowMetaDatas)

(* C9 *)

\* C9: in every state the row list is a pre-order traversal that agrees with
\* the levels: the first row has level 0, a row is at most one level below
\* the row before it, the records of a childRowMetas list are one level below
\* their parent, and the rows after a row are its expanded descendants in
\* pre-order, followed by a row that is not below it.
C9_RowsArePreOrder ==
  /\ Len(rowMetaDatas) > 0 => RowLevel(1) = 0
  /\ \A i \in 2..Len(rowMetaDatas) : RowLevel(i) <= RowLevel(i - 1) + 1
  /\ \A r \in DOMAIN rowMetas : \A k \in 1..Len(rowMetas[r].childRowMetas) :
       rowMetas[rowMetas[r].childRowMetas[k]].level = rowMetas[r].level + 1
  /\ \A i \in 1..Len(rowMetaDatas) :
       LET below == PreOrder(rowMetas, rowMetas[rowMetaDatas[i]].childRowMetas)
           next == i + Len(below) + 1
       IN /\ next - 1 <= Len(rowMetaDatas)
          /\ SubSeq(rowMetaDatas, i + 1, next - 1) = below
          /\ next <= Len(rowMetaDatas) => RowLevel(next) <= RowLevel(i)

(* C10 *)

\* the running task is an _expandNode of node n, and the step completes it
ExpandCompletes(n) ==
  /\ queue # <<>> /\ queue[1].pc = "expand_fetch"
  /\ n = (IF queue[1].op = "reveal" THEN Head(queue[1].ancestors) ELSE queue[1].node)
  /\ queue' # <<>>
  /\ queue'[1].pc # "failed"
  /\ queue'[1].pc # "expand_fetch" \/ queue'[1].ancestors # queue[1].ancestors

\* C10: expanding a node that is in the index, collapsed and able to have
\* children leaves the rows up to and including the node's row, then one new
\* record per non-null child in the fetched order at the node's level + 1,
\* then the rows that followed the node's row; the row count grows by the
\* number of non-null children and the node's state becomes open.  The root,
\* whose record is in no row, gets its children before all rows.
C10_ExpandSplicesChildren ==
  [][\A n \in Nodes :
       (/\ ExpandCompletes(n)
        /\ getNodeStateFor(rowMetaDataByNode, rowMetas, n) = "closed")
       => LET row == indexOf(rowMetaDatas, rowMetaDataByNode[n])
              old == RowView(rowMetaDatas, rowMetas)
              children == NonNull(getChildrenOf(n))
              level == rowMetas[rowMetaDataByNode[n]].level + 1
              new == [k \in 1..Len(children) |-> <<children[k], level>>]
          IN /\ RowView(rowMetaDatas', rowMetas')
                  = SubSeq(old, 1, row) \o new \o SubSeq(old, row + 1, Len(old))
             /\ Len(rowMetaDatas') = getSize + Len(children)
             /\ getNodeStateFor(rowMetaDataByNode', rowMetas', n) = "open"]_vars

\* C was expanded in the middle of the row list: its null child is skipped,
\* E follows C and B still follows
C10_Witness ==
  /\ RowNodes = <<"A", "C", "E", "B">>
  /\ queue # <<>> /\ queue[1].op = "expand" /\ queue[1].node = "C" /\ queue[1].pc = "done"

(* C11 *)

\* expandNode(n) run as the only task: the fetch, then the body of _expandNode
expandOf(st, n) == expandNodeBody(st, n, getChildrenOf(n)).st

\* expandNode for each of the nodes and then for everything below them
RECURSIVE expandBelow(_, _)
expandBelow(st, nodes) ==
  IF nodes = <<>> THEN st
  ELSE LET n == Head(nodes) IN
       IF n = NULL THEN expandBelow(st, Tail(nodes))
       ELSE expandBelow(expandBelow(expandOf(st, n), getChildrenOf(n)), Tail(nodes))

\* the row list and the index are those of the current state, and the record
\* of n is the record it was, without childRowMetas
Restored(st, n) ==
  /\ st.rows = rowMetaDatas
  /\ st.byNode = rowMetaDataByNode
  /\ ~st.heap[st.byNode[n]].hasChildRowMetas
  /\ st.heap[st.byNode[n]].childRowMetas = <<>>

\* C11: for a node that is in the index and collapsed, expand followed by
\* collapse gives back the row list and the index as they were before the
\* expand, with the same record for the node and no childRowMetas in it; the
\* same holds when the descendants were expanded between the two.  (Taken in
\* the states where the queue is idle, so that the two tasks run at once.)
C11_ExpandCollapseRestores ==
  \A n \in Nodes :
    (Idle /\ rowMetaDataByNode[n] # 0 /\ ~Expanded(n)) =>
      /\ Restored(collapseNodeBody(expandOf(CurStore, n), n).st, n)
      /\ Restored(collapseNodeBody(expandBelow(CurStore, <<n>>), n).st, n)

(* C12 *)

\* a is a proper ancestor of n in the tree
RECURSIVE Ancestor(_, _)
Ancestor(a, n) ==
  LET p == getParentOf(n) IN p # NULL /\ (p = a \/ Ancestor(a, p))

\* expandNode(n) and expandNode(m) were issued one after the other: the task of
\* the first is suspended at its fetch, the task of the second waits behind it
ExpandPair(n, m) ==
  /\ Len(queue) = 2
  /\ queue[1].op = "expand" /\ queue[1].node = n /\ queue[1].pc = "expand_fetch"
  /\ queue[2].op = "expand" /\ queue[2].node = m /\ queue[2].pc = "queued"
  /\ n # m /\ ~Ancestor(n, m) /\ ~Ancestor(m, n)
  /\ rowMetaDataByNode[n] # 0 /\ rowMetaDataByNode[m] # 0

\* the rows after the two expands have run in the given order
RowsAfter(first, second) ==
  LET st == expandOf(expandOf(CurStore, first), second) IN RowView(st.rows, st.heap)

\* C12: two expands of distinct nodes of the index, neither an ancestor of the
\* other, issued concurrently: the final row list is the same whichever of the
\* two was issued first, and a step that changes the rows while both are
\* queued is the whole splice of the first one, the second not having started.
C12_ConcurrentExpandsCommute ==
  [][\A n, m \in Nodes :
       ExpandPair(n, m) =>
         /\ RowsAfter(n, m) = RowsAfter(m, n)
         /\ (root' = root /\ RowView(rowMetaDatas', rowMetas') # RowView(rowMetaDatas, rowMetas))
              => /\ RowView(rowMetaDatas', rowMetas')
                      = RowView(expandOf(CurStore, n).rows, expandOf(CurStore, n).heap)
                 /\ Len(queue') = 2
                 /\ queue'[1].pc = "done"
                 /\ queue'[2].pc = "queued"]_vars

(* C13 *)

\* the step makes a task of expandNode, collapseNode, refreshNodeChildren or
\* revealNode fail (its _expandNode or _collapseNode raises)
FailsNow(i) ==
  /\ i \in 1..Len(queue')
  /\ queue'[i].op \in {"expand", "collapse", "refresh", "changed", "reveal"}
  /\ queue'[i].pc = "failed"
  /\ \A j \in 1..Len(queue) : queue[j].pc # "failed"

\* the node the failing _expandNode or _collapseNode was called for
FailingNode(e) == IF e.op = "reveal" THEN Head(e.ancestors) ELSE e.node

\* C13: an expand or collapse that fails leaves the row list, the node index
\* and the childRowMetas of its node exactly as they were.
C13_FailureLeavesStoreUnchanged ==
  [][\A i \in 1..Len(queue') :
       (FailsNow(i) /\ root' = root) =>
         /\ RowView(rowMetaDatas', rowMetas') = RowView(rowMetaDatas, rowMetas)
         /\ \A n \in Nodes :
              /\ (rowMetaDataByNode'[n] = 0) = (rowMetaDataByNode[n] = 0)
              /\ getNodeStateFor(rowMetaDataByNode', rowMetas', n)
                   = getNodeStateFor(rowMetaDataByNode, rowMetas, n)
         /\ LET n == FailingNode(queue'[i]) IN
              rowMetaDataByNode[n] # 0 =>
                rowMetas'[rowMetaDataByNode'[n]].childRowMetas
                  = rowMetas[rowMetaDataByNode[n]].childRowMetas]_vars

(* C14 *)

\* the step is one of the running task of revealNode, which does not fail in it
RevealSteps ==
  /\ queue # <<>> /\ queue[1].op = "reveal" /\ Suspended(queue[1])
  /\ queue' # <<>> /\ queue'[1].op = "reveal" /\ queue'[1].pc \in {"expand_fetch", "done"}
  /\ root' = root

\* C14: when revealNode(node) completes for a node below the current root,
\* every ancestor of the node below the root is expanded, the node is in the
\* row list, and getPositionOfModel(node) is the row at which getNode gives
\* the node; no step of the reveal removes a row that was visible.
C14_RevealShowsNode ==
  [][RevealSteps =>
       /\ \A i \in 1..Len(rowMetaDatas) :
            \E j \in 1..Len(rowMetaDatas') :
              rowMetas'[rowMetaDatas'[j]].node = RowNode(i)
       /\ (queue'[1].pc = "done" /\ root # NULL /\ Ancestor(root, queue[1].node)) =>
            LET node == queue[1].node
                pos == getPositionOfModel(rowMetaDatas', rowMetaDataByNode', node)
            IN /\ \A a \in Nodes :
                    (Ancestor(a, node) /\ Ancestor(root, a))
                      => getNodeStateFor(rowMetaDataByNode', rowMetas', a) = "open"
               /\ \E j \in 1..Len(rowMetaDatas') : rowMetas'[rowMetaDatas'[j]].node = node
               /\ pos # <<>> /\ pos[1] >= 0
               /\ getNode(rowMetaDatas', rowMetas', pos[1]) = node]_vars

(* C15 *)

\* the running task is a revealNode of a node that is not below the current root
RevealOfStranger ==
  /\ queue # <<>> /\ queue[1].op = "reveal" /\ Suspended(queue[1])
  /\ queue' # <<>> /\ queue'[1].op = "reveal"
  /\ root' = root
  /\ ~(root # NULL /\ Ancestor(root, queue[1].node))

\* C15: revealNode of a node that is not a descendant of the current root (a
\* node without a parent, or one whose parents lead elsewhere) fails: its task
\* never completes, and no step of it changes the row list.
C15_RevealOfStrangerFails ==
  [][RevealOfStranger =>
       /\ queue'[1].pc # "done"
       /\ RowView(rowMetaDatas', rowMetas') = RowView(rowMetaDatas, rowMetas)]_vars

(* C16 *)

\* the row indices the callers ask for: one below the first row up to one
\* past the row after the last
ProbeRows == (0 - 1)..(Len(rowMetaDatas) + 1)

\* C16: getModelForPosition never throws: for a row index outside the row list
\* (negative, or not below the row count) it returns null, and for an index
\* inside it returns the node of the record at that index.
C16_GetModelForPositionTotal ==
  \A i \in ProbeRows :
    getModelForPosition(rowMetaDatas, rowMetas, i)
      = IF i >= 0 /\ i < Len(rowMetaDatas) THEN RowNode(i + 1) ELSE NULL

(* C17 *)

\* C17: getPositionOfModel(node) returns null when the node has no record in
\* the index or its record is not in the row list (the root's never is); a
\* position it returns is a row of the row list at which getNode gives node.
C17_PositionOfModelIsARow ==
  \A n \in Nodes :
    LET pos == getPositionOfModel(rowMetaDatas, rowMetaDataByNode, n) IN
    /\ (rowMetaDataByNode[n] = 0 \/ rowMetaDataByNode[n] \notin Range(rowMetaDatas))
         => pos = <<>>
    /\ pos # <<>> =>
         /\ pos[1] >= 0 /\ pos[1] < Len(rowMetaDatas)
         /\ getNode(rowMetaDatas, rowMetas, pos[1]) = n

(* C18 *)

\* C18: makeAvailable called from within a running queue task returns, with
\* or without a drain wait registered before: no such call is left waiting
\* for the promise that is resolved only once the queue is empty, which it
\* cannot be before the calling task has returned.
C18_InTaskFlushReturns ==
  \A i \in 1..Len(queue) : ~queue[i].flush

(* C19 *)

\* C19: when the promise returned by expandNode, collapseNode,
\* refreshNodeChildren or revealNode is resolved, the task that call submitted
\* has run to completion.
C19_ResolvedMeansDone ==
  \A i \in 1..Len(queue) :
    (queue[i].op # "setRoot" /\ queue[i].promise = "resolved") => queue[i].pc = "done"

(* C20 *)

\* C20: a refreshNodeChildren(node) enqueued by the callback of a
\* children-change binding finds the node in the index when it runs, whatever
\* was queued before it: its task does not fail (for a node whose fetch and
\* whose children's inspectors do not raise, not finding the node is the only
\* way it can).
C20_BindingRefreshFindsNode ==
  \A i \in 1..Len(queue) :
    (/\ queue[i].op = "changed"
     /\ queue[i].node \notin FetchMayFail
     /\ firstRaising(getChildrenOf(queue[i].node)) = 0)
      => queue[i].pc # "failed"

====
